---- MODULE Spec2Model ----
(***************************************************************************)
(* Model of the `init` command of the atomic CLI                           *)
(* (src/commands/init.ts) together with the process-level signal handlers  *)
(* of the CLI entry file.                                                  *)
(*                                                                         *)
(* One run of `init` is a single thread of control.  Every `await`, every  *)
(* synchronous check that can end the process, and the catch block are one *)
(* action each; `pc` is the position of the run.  The disk of the target   *)
(* project is modelled by the variables targetDir .. cssFile.              *)
(***************************************************************************)
EXTENDS Naturals, Sequences, FiniteSets

(***************************************************************************)
(* Bounds of the model.                                                    *)
(***************************************************************************)
\* longest text the operator types at a text prompt (in characters)
MaxLen == 1
\* longest dependency list the remote service returns
MaxDeps == 2

(***************************************************************************)
(* Values.                                                                 *)
(***************************************************************************)
\* the content of a path that does not exist on disk
NoFile == "<absent>"
\* a value that has not been assigned (JavaScript undefined)
Undefined == "<undefined>"
\* a text that has not been assigned
UndefinedText == <<Undefined>>
\* no error has been thrown
NoError == "<none>"

\* characters the operator types one by one: the double quote and the
\* backslash, the two characters a JSON string literal must escape (texts of
\* plain characters are represented by the defaults below)
Chars == {"\"", "\\"}

RECURSIVE TextsOfLen(_)
TextsOfLen(n) ==
  IF n = 0 THEN {<<>>}
  ELSE {<<c>> \o t : c \in Chars, t \in TextsOfLen(n - 1)}

\* the non-empty texts of at most MaxLen characters
Texts == UNION {TextsOfLen(n) : n \in 1..MaxLen}

\* `initial` of the two text prompts; a text is a sequence of characters and
\* the default is kept as one unit with no character that needs escaping
InitialGlobalCSS == <<"app/globals.css">>
InitialComponents == <<"@/components/getatomic">>

\* the theme lists the remote service can return: records {id, name}
ThemeLists ==
  { <<[id |-> <<"t", "1">>, name |-> "Light"]>>,
    <<[id |-> <<"t", "1">>, name |-> "Light"],
      [id |-> <<"t", "\"", "2">>, name |-> "Dark"]>> }

\* stylesheet contents the remote service can return
CssContents == {"css-A", "css-B"}
\* what a stylesheet that exists before the run contains
OldCss == "css-old"
\* what a config file that exists before the run contains
OldConfig == <<"old-config">>

\* package names the remote service can list as dependencies
DepNames == {"clsx", "tailwind-merge"}

RECURSIVE DepListsOfLen(_)
DepListsOfLen(n) ==
  IF n = 0 THEN {<<>>}
  ELSE {<<d>> \o l : d \in DepNames, l \in DepListsOfLen(n - 1)}

DepLists == UNION {DepListsOfLen(n) : n \in 0..MaxDeps}

\* packages a manifest can declare
DeclarablePackages == {"react", "next"}

\* the package managers the detector can name
PackageManagers == {"npm", "yarn", "pnpm"}

\* resolved absolute paths
ComponentsPath == "/project/components/getatomic"
CssPath == "/project/app/globals.css"

(***************************************************************************)
(* JSON.stringify / JSON.parse of the config object.  The serialised text  *)
(* is a sequence of characters; keys and punctuation are single units,     *)
(* string values are written character by character between double quotes  *)
(* with `"` and `\` escaped by a backslash.                                *)
(***************************************************************************)
\* mutant of EscapeChar: nothing is escaped
EscapeCharIdentity(c) == <<c>>

EscapeChar(c) ==
  IF c = "\"" \/ c = "\\" THEN <<"\\", c>> ELSE <<c>>

RECURSIVE EscapeText(_)
EscapeText(t) ==
  IF t = <<>> THEN <<>>
  ELSE EscapeChar(Head(t)) \o EscapeText(Tail(t))

QuoteText(t) == <<"\"">> \o EscapeText(t) \o <<"\"">>

JSONStringify(cfg) ==
  <<"{", "KEY theme", ":", "{", "KEY name", ":">> \o QuoteText(cfg.theme.name)
  \o <<",", "KEY css", ":">> \o QuoteText(cfg.theme.css)
  \o <<"}", ",", "KEY alias", ":", "{", "KEY components", ":">>
  \o QuoteText(cfg.alias.components)
  \o <<"}", "}">>

\* Reading the file back (JSON.parse), as a consumer of the config file does.
\* the string literal whose opening quote is at position i - 1
RECURSIVE ReadString(_, _)
ReadString(s, i) ==
  IF i > Len(s) THEN UndefinedText
  ELSE IF s[i] = "\"" THEN <<>>
  ELSE IF s[i] = "\\"
       THEN IF i + 1 > Len(s) THEN UndefinedText
            ELSE <<s[i + 1]>> \o ReadString(s, i + 2)
  ELSE <<s[i]>> \o ReadString(s, i + 1)

HasKey(s, key) == \E i \in 1..Len(s) : s[i] = key

Field(s, key) ==
  IF HasKey(s, key)
  THEN LET i == CHOOSE j \in 1..Len(s) : s[j] = key
       IN  IF i + 2 <= Len(s) /\ s[i + 1] = ":" /\ s[i + 2] = "\""
           THEN ReadString(s, i + 3)
           ELSE UndefinedText
  ELSE UndefinedText

JSONParse(s) ==
  [theme |-> [name |-> Field(s, "KEY name"), css |-> Field(s, "KEY css")],
   alias |-> [components |-> Field(s, "KEY components")]]

(***************************************************************************)
(* State.                                                                  *)
(***************************************************************************)
VARIABLES
  pc,            \* the stage the run is at
  exitCode,      \* the process exit code, Undefined while the process runs
  error,         \* the error the try block threw, NoError if none
  hist,          \* the stages entered so far, in order
  diskBefore,    \* the disk as it was when the run started
  targetDir,     \* disk: the target directory exists
  manifest,      \* disk: package.json at the target root
  configFile,    \* disk: getatomic.components.json at the target root
  componentsDir, \* disk: the resolved components directory exists
  cssDir,        \* disk: the directory of the resolved css path exists
  cssFile,       \* disk: content of the resolved css path, NoFile if absent
  themes,        \* result of getThemes()
  options,       \* answers of the three-question prompt
  resolvedPaths, \* resolvedConfig.resolvedPaths
  proceed,       \* answer of the confirm prompt
  initData,      \* result of getInitData()
  calls,         \* how often each external operation has been invoked
  spawned        \* the subprocesses spawned so far, in order

ctl == <<pc, exitCode, error, hist>>
disk == <<targetDir, manifest, configFile, componentsDir, cssDir, cssFile>>
data == <<themes, options, resolvedPaths, proceed, initData>>
effects == <<calls, spawned>>
vars == <<ctl, diskBefore, disk, data, effects>>

AbsentConfig == [exists |-> FALSE, text |-> <<>>]
AbsentManifest == [exists |-> FALSE, deps |-> {}]

Init ==
  /\ pc = "ValidateTarget"
  /\ exitCode = Undefined
  /\ error = NoError
  /\ hist = <<"ValidateTarget">>
  /\ targetDir \in BOOLEAN
  /\ manifest \in
       IF targetDir
       THEN {AbsentManifest} \cup
            {[exists |-> TRUE, deps |-> d] : d \in SUBSET DeclarablePackages}
       ELSE {AbsentManifest}
  /\ configFile \in
       IF targetDir
       THEN {AbsentConfig, [exists |-> TRUE, text |-> OldConfig]}
       ELSE {AbsentConfig}
  /\ componentsDir \in (IF targetDir THEN BOOLEAN ELSE {FALSE})
  /\ cssDir \in (IF targetDir THEN BOOLEAN ELSE {FALSE})
  /\ cssFile \in (IF cssDir THEN {NoFile, OldCss} ELSE {NoFile})
  /\ diskBefore = disk
  /\ themes = <<>>
  /\ options = [theme |-> UndefinedText, globalCSS |-> UndefinedText,
                components |-> UndefinedText]
  /\ resolvedPaths = [components |-> Undefined, css |-> Undefined]
  /\ proceed = Undefined
  /\ initData = [css |-> Undefined, dependencies |-> <<>>]
  /\ calls = [getThemes |-> 0, prompts |-> 0, writeConfig |-> 0, mkdir |-> 0,
              getInitData |-> 0, writeCss |-> 0, unlink |-> 0]
  /\ spawned = <<>>

(***************************************************************************)
(* Control transfer.                                                       *)
(***************************************************************************)
\* the run moves on to the next stage
Goto(stage) ==
  /\ pc' = stage
  /\ hist' = Append(hist, stage)
  /\ UNCHANGED <<exitCode, error, diskBefore>>

\* process.exit(code)
ProcessExit(code) ==
  /\ pc' = "Exited"
  /\ exitCode' = code
  /\ hist' = Append(hist, "Exited")
  /\ UNCHANGED <<error, diskBefore>>

\* mutant of Throw: the failed operation is attempted again
ThrowAndRetry(e) ==
  /\ pc' = pc
  /\ error' = e
  /\ UNCHANGED <<exitCode, hist, diskBefore>>

\* an exception leaves the try block and enters the catch block
Throw(e) ==
  /\ pc' = "Catch"
  /\ error' = e
  /\ hist' = Append(hist, "Catch")
  /\ UNCHANGED <<exitCode, diskBefore>>

\* the action callback returns; the process ends with exit code 0
Return ==
  /\ pc' = "Done"
  /\ exitCode' = 0
  /\ hist' = Append(hist, "Done")
  /\ UNCHANGED <<error, diskBefore>>

Called(op) == calls' = [calls EXCEPT ![op] = @ + 1]

\* existsSync(cwd)
existsSyncCwd == targetDir
\* mutant of existsSyncPackageJson: the directory is tested, not the manifest
existsSyncPackageJsonTestsCwd == targetDir

\* existsSync(path.resolve(cwd, "package.json"))
existsSyncPackageJson == manifest.exists
\* checkPackageExists(name, cwd)
checkPackageExists(name) == manifest.exists /\ name \in manifest.deps

(***************************************************************************)
(* The init action, lines 26-66.                                           *)
(***************************************************************************)
ValidateTarget ==
  /\ pc = "ValidateTarget"
  /\ IF ~existsSyncCwd
     THEN ProcessExit(1)
     ELSE Goto("ValidatePackageJSON")
  /\ UNCHANGED <<disk, data, effects>>

ValidatePackageJSON ==
  /\ pc = "ValidatePackageJSON"
  /\ IF ~existsSyncPackageJson
     THEN ProcessExit(1)
     ELSE Goto("ValidateFramework")
  /\ UNCHANGED <<disk, data, effects>>

\* mutant of MissingFramework: the first negation is lost
MissingFrameworkLostNegation ==
  checkPackageExists("react") /\ ~checkPackageExists("next")

\* lines 49-52: neither react nor next is declared
MissingFramework ==
  ~checkPackageExists("react") /\ ~checkPackageExists("next")

ValidateFramework ==
  /\ pc = "ValidateFramework"
  /\ IF MissingFramework
     THEN ProcessExit(1)
     ELSE Goto("GetThemes")
  /\ UNCHANGED <<disk, data, effects>>

(***************************************************************************)
(* promptForProjectDetails, lines 76-155.                                  *)
(***************************************************************************)
\* line 77: await getThemes()
GetThemes ==
  /\ pc = "GetThemes"
  /\ Called("getThemes")
  /\ \/ \E list \in ThemeLists :
          /\ themes' = list
          /\ Goto("PromptTheme")
     \/ /\ Throw("getThemes failed")
        /\ UNCHANGED themes
  /\ UNCHANGED <<disk, options, resolvedPaths, proceed, initData, spawned>>

\* onCancel of the three-question prompt, lines 104-106
onCancel == Throw("Terminated Atomic UI setup.")

\* lines 81-89: the select question; its value is the id of the chosen theme
PromptTheme ==
  /\ pc = "PromptTheme"
  /\ Called("prompts")
  /\ \/ \E i \in 1..Len(themes) :
          /\ options' = [options EXCEPT !.theme = themes[i].id]
          /\ Goto("PromptCSS")
     \/ /\ onCancel
        /\ UNCHANGED options
  /\ UNCHANGED <<disk, themes, resolvedPaths, proceed, initData, spawned>>

\* lines 90-95: the text question for the global CSS file
PromptCSS ==
  /\ pc = "PromptCSS"
  /\ Called("prompts")
  /\ \/ \E t \in Texts \cup {InitialGlobalCSS} :
          /\ options' = [options EXCEPT !.globalCSS = t]
          /\ Goto("PromptAlias")
     \/ /\ onCancel
        /\ UNCHANGED options
  /\ UNCHANGED <<disk, themes, resolvedPaths, proceed, initData, spawned>>

\* lines 96-101: the text question for the import alias
PromptAlias ==
  /\ pc = "PromptAlias"
  /\ Called("prompts")
  /\ \/ \E t \in Texts \cup {InitialComponents} :
          /\ options' = [options EXCEPT !.components = t]
          /\ Goto("ResolvePaths")
     \/ /\ onCancel
        /\ UNCHANGED options
  /\ UNCHANGED <<disk, themes, resolvedPaths, proceed, initData, spawned>>

\* lines 110-118
atomicComponentsConfig ==
  [theme |-> [name |-> options.theme, css |-> options.globalCSS],
   alias |-> [components |-> options.components]]

\* what resolveConfigPaths can yield for the two resolved paths
ResolvedPathsOutcomes ==
  [components : {"", ComponentsPath}, css : {"", CssPath}]

\* mutant of ResolveFailed: only the components path is tested
ResolveFailedComponentsOnly(paths) == paths.components = ""

\* lines 125-128: the test that rejects an empty resolved path
ResolveFailed(paths) == paths.components = "" \/ paths.css = ""

\* lines 120-132: await resolveConfigPaths(...) and the check of its result
ResolvePaths ==
  /\ pc = "ResolvePaths"
  /\ \E paths \in ResolvedPathsOutcomes :
       /\ resolvedPaths' = paths
       /\ IF ResolveFailed(paths)
          THEN Throw("Failed to resolve components alias")
          ELSE Goto("Confirm")
  /\ UNCHANGED <<disk, themes, options, proceed, initData, effects>>

\* the answers of the confirm prompt: yes, no, or undefined when the
\* operator cancels it (this prompt has no onCancel)
ConfirmAnswers == {"true", "false", Undefined}

\* mutant of NotProceed: only a cancelled prompt stops the run
NotProceedUndefinedOnly(answer) == answer = Undefined

\* line 141: !proceed
NotProceed(answer) == answer \in {"false", Undefined}

\* mutant of Confirm: the prompt is shown again until the answer is yes
ConfirmAsksAgain ==
  /\ pc = "Confirm"
  /\ \E answer \in ConfirmAnswers :
       /\ proceed' = answer
       /\ IF NotProceed(answer)
          THEN UNCHANGED <<ctl, diskBefore, calls>>
          ELSE /\ Called("prompts")
               /\ Goto("PersistConfig")
  /\ UNCHANGED <<disk, themes, options, resolvedPaths, initData, spawned>>

\* lines 134-143
Confirm ==
  /\ pc = "Confirm"
  /\ Called("prompts")
  /\ \E answer \in ConfirmAnswers :
       /\ proceed' = answer
       /\ IF NotProceed(answer)
          THEN ProcessExit(0)
          ELSE Goto("PersistConfig")
  /\ UNCHANGED <<disk, themes, options, resolvedPaths, initData, spawned>>

\* lines 145-152: await fs.writeFile(targetPath, JSON.stringify(...))
PersistConfig ==
  /\ pc = "PersistConfig"
  /\ \/ /\ configFile' =
             [exists |-> TRUE, text |-> JSONStringify(atomicComponentsConfig)]
        /\ Called("writeConfig")
        /\ Goto("EnsureComponentsDir")
     \/ /\ Throw("writeFile failed")
        /\ UNCHANGED <<configFile, calls>>
  /\ UNCHANGED <<targetDir, manifest, componentsDir, cssDir, cssFile, data,
                 spawned>>

(***************************************************************************)
(* runInit, lines 157-194.                                                 *)
(***************************************************************************)
\* lines 160-162
EnsureComponentsDir ==
  /\ pc = "EnsureComponentsDir"
  /\ IF ~componentsDir
     THEN \/ /\ componentsDir' = TRUE
             /\ Called("mkdir")
             /\ Goto("FetchInitPayload")
          \/ /\ Throw("mkdir failed")
             /\ UNCHANGED <<componentsDir, calls>>
     ELSE /\ Goto("FetchInitPayload")
          /\ UNCHANGED <<componentsDir, calls>>
  /\ UNCHANGED <<targetDir, manifest, configFile, cssDir, cssFile, data,
                 spawned>>

\* what getInitData can return
InitPayloads == [css : CssContents, dependencies : DepLists]

\* mutant of FetchInitPayload: the install follows the fetch directly
FetchInitPayloadThenInstall ==
  /\ pc = "FetchInitPayload"
  /\ Called("getInitData")
  /\ \/ \E payload \in InitPayloads :
          /\ initData' = payload
          /\ Goto("InstallDependencies")
     \/ /\ Throw("getInitData failed")
        /\ UNCHANGED initData
  /\ UNCHANGED <<disk, themes, options, resolvedPaths, proceed, spawned>>

\* lines 164-166: await getInitData({theme})
FetchInitPayload ==
  /\ pc = "FetchInitPayload"
  /\ Called("getInitData")
  /\ \/ \E payload \in InitPayloads :
          /\ initData' = payload
          /\ Goto("EnsureCssDir")
     \/ /\ Throw("getInitData failed")
        /\ UNCHANGED initData
  /\ UNCHANGED <<disk, themes, options, resolvedPaths, proceed, spawned>>

\* lines 169-171
EnsureCssDir ==
  /\ pc = "EnsureCssDir"
  /\ IF cssFile = NoFile
     THEN \/ /\ cssDir' = TRUE
             /\ Called("mkdir")
             /\ Goto("WriteStylesheet")
          \/ /\ Throw("mkdir failed")
             /\ UNCHANGED <<cssDir, calls>>
     ELSE /\ Goto("WriteStylesheet")
          /\ UNCHANGED <<cssDir, calls>>
  /\ UNCHANGED <<targetDir, manifest, configFile, componentsDir, cssFile,
                 data, spawned>>

\* line 172: await fs.writeFile(config.resolvedPaths.css, initData.css)
WriteStylesheet ==
  /\ pc = "WriteStylesheet"
  /\ \/ /\ cssFile' = initData.css
        /\ Called("writeCss")
        /\ Goto("InstallDependencies")
     \/ /\ Throw("writeFile failed")
        /\ UNCHANGED <<cssFile, calls>>
  /\ UNCHANGED <<targetDir, manifest, configFile, componentsDir, cssDir,
                 data, spawned>>

\* mutant of InstallVerb: every manager is given the verb install
InstallVerbAlwaysInstall(packageManager) == "install"

\* line 185: the verb handed to the package manager
InstallVerb(packageManager) ==
  IF packageManager = "npm" THEN "install" ELSE "add"

\* lines 183-190: the subprocess execa is asked to run
InstallCommand(packageManager) ==
  [file |-> packageManager,
   args |-> <<InstallVerb(packageManager)>> \o initData.dependencies,
   cwd |-> "cwd"]

\* mutant of NoDependencies: the length test is off by one
NoDependenciesOffByOne == Len(initData.dependencies) <= 1

\* line 176: initData.dependencies.length === 0
NoDependencies == Len(initData.dependencies) = 0

\* lines 176-190: skip the install, or detect the manager and spawn it
InstallDependencies ==
  /\ pc = "InstallDependencies"
  /\ IF NoDependencies
     THEN /\ Return
          /\ UNCHANGED spawned
     ELSE \E packageManager \in PackageManagers :
            /\ spawned' = Append(spawned, InstallCommand(packageManager))
            /\ Goto("AwaitInstall")
  /\ UNCHANGED <<disk, data, calls>>

\* lines 183-192: the subprocess ends; execa rejects on a non-zero exit
AwaitInstall ==
  /\ pc = "AwaitInstall"
  /\ \/ Return
     \/ Throw("Command failed")
  /\ UNCHANGED <<disk, data, effects>>

(***************************************************************************)
(* The catch block of the init action, lines 66-73.                        *)
(***************************************************************************)
\* handleError(error): reports the error and ends the process with code 1
handleError == [exits |-> TRUE, code |-> 1]

\* lines 69-72: delete the config file if it exists
UnlinkConfig ==
  IF configFile.exists
  THEN /\ configFile' = AbsentConfig
       /\ Called("unlink")
  ELSE UNCHANGED <<configFile, calls>>

\* mutant of Catch: the config file is deleted before the error is reported
CatchUnlinksFirst ==
  /\ pc = "Catch"
  /\ UnlinkConfig
  /\ ProcessExit(handleError.code)
  /\ UNCHANGED <<targetDir, manifest, componentsDir, cssDir, cssFile, data,
                 spawned>>

\* mutant of Catch: the handler also undoes the directory and the stylesheet
CatchRollsBackAll ==
  /\ pc = "Catch"
  /\ componentsDir' = diskBefore[4]
  /\ cssFile' = diskBefore[6]
  /\ ProcessExit(handleError.code)
  /\ UNCHANGED <<targetDir, manifest, configFile, cssDir, data, effects>>

Catch ==
  /\ pc = "Catch"
  /\ IF handleError.exits
     THEN /\ ProcessExit(handleError.code)
          /\ UNCHANGED <<configFile, calls>>
     ELSE /\ UnlinkConfig
          /\ Return
  /\ UNCHANGED <<targetDir, manifest, componentsDir, cssDir, cssFile, data,
                 spawned>>

(***************************************************************************)
(* The signal handlers of the entry file: process.exit(0) on SIGINT and    *)
(* SIGTERM.  A handler runs only while the run is suspended at an await.   *)
(***************************************************************************)
AwaitPoints ==
  {"GetThemes", "PromptTheme", "PromptCSS", "PromptAlias", "ResolvePaths",
   "Confirm", "PersistConfig", "EnsureComponentsDir", "FetchInitPayload",
   "EnsureCssDir", "WriteStylesheet", "InstallDependencies", "AwaitInstall"}

Suspended ==
  /\ pc \in AwaitPoints
  /\ pc = "EnsureComponentsDir" => ~componentsDir
  /\ pc = "EnsureCssDir" => cssFile = NoFile
  /\ pc = "InstallDependencies" => ~NoDependencies

Signal ==
  /\ Suspended
  /\ ProcessExit(0)
  /\ UNCHANGED <<disk, data, effects>>

(***************************************************************************)
(* Specifications.                                                         *)
(***************************************************************************)
Next ==
  \/ ValidateTarget
  \/ ValidatePackageJSON
  \/ ValidateFramework
  \/ GetThemes
  \/ PromptTheme
  \/ PromptCSS
  \/ PromptAlias
  \/ ResolvePaths
  \/ Confirm
  \/ PersistConfig
  \/ EnsureComponentsDir
  \/ FetchInitPayload
  \/ EnsureCssDir
  \/ WriteStylesheet
  \/ InstallDependencies
  \/ AwaitInstall
  \/ Catch

\* a run of init that no signal interrupts
Spec == Init /\ [][Next]_vars

\* a run in which every prompt, remote call, file operation and subprocess
\* that is awaited eventually returns
FairSpec == Init /\ [][Next]_vars /\ WF_vars(Next)

NextSignals == Next \/ Signal

\* a run of init that SIGINT or SIGTERM may interrupt
SpecSignals == Init /\ [][NextSignals]_vars

Terminated == pc \in {"Done", "Exited"}

(***************************************************************************)
(* Vocabulary of the properties.                                           *)
(***************************************************************************)
\* the run has entered the stage
Entered(stage) == \E i \in 1..Len(hist) : hist[i] = stage

\* the config file is as it was before the run
ConfigUntouched == configFile = diskBefore[3]

\* nothing on disk differs from what was there before the run
DiskUntouched == disk = diskBefore

\* the operator cancelled one of the three questions or the confirm prompt
CancelledQuestion == error = "Terminated Atomic UI setup."
CancelledConfirm == Entered("Confirm") /\ pc # "Confirm" /\ proceed = Undefined
Declined == proceed = "false"

\* one of the resolved paths is the empty string
EmptyResolvedPath == resolvedPaths.components = "" \/ resolvedPaths.css = ""

\* getInitData has returned a payload, and its dependency list is empty
Fetched == initData.css # Undefined
FetchedNoDeps == Fetched /\ initData.dependencies = <<>>
FetchedSomeDeps == Fetched /\ initData.dependencies # <<>>

(***************************************************************************)
(* C1: once PersistConfig has written the config file, if a later step     *)
(* fails (components directory, fetchInitData, stylesheet, install), the   *)
(* config file no longer exists when the process has terminated.           *)
(* Stated as claimed; the code violates it, because handleError ends the   *)
(* process before the catch block reaches its unlink.                      *)
(***************************************************************************)
C1_ConfigRemovedAfterLaterFailure ==
  (Terminated /\ calls.writeConfig > 0 /\ error # NoError)
    => ~configFile.exists

(***************************************************************************)
(* C2: if the operator cancels any prompt (theme, stylesheet path, alias,  *)
(* confirmation), no config file exists in the target directory once the   *)
(* process has terminated, whatever the directory contained before.        *)
(* Stated as claimed; the code violates it when a config file existed      *)
(* before the run.                                                         *)
(***************************************************************************)
C2_NoConfigAfterCancel ==
  (Terminated /\ (CancelledQuestion \/ CancelledConfirm))
    => ~configFile.exists

(***************************************************************************)
(* C3: if the operator declines the confirmation, the process exits with   *)
(* code 0 and the run writes no config file; the config file is written    *)
(* only in runs where the confirmation was answered yes.                   *)
(***************************************************************************)
C3_DeclineExitsZeroWritesNothing ==
  /\ Declined =>
       /\ pc = "Exited"
       /\ exitCode = 0
       /\ calls.writeConfig = 0
       /\ ConfigUntouched
  /\ (calls.writeConfig > 0 \/ ~ConfigUntouched) => proceed = "true"

C3_Witness ==
  /\ Declined
  /\ pc = "Exited"
  /\ diskBefore[3].exists

(***************************************************************************)
(* C4: the exit code is 0 exactly when the run reached Done or the         *)
(* operator declined the confirmation, and 1 for every validation failure  *)
(* and every pipeline failure, prompt cancellation included.               *)
(* Stated as claimed; the code violates it: cancelling the confirm prompt  *)
(* exits with code 0.                                                      *)
(***************************************************************************)
C4_ExitCodeZeroIffDoneOrDeclined ==
  Terminated =>
    IF pc = "Done" \/ Declined THEN exitCode = 0 ELSE exitCode = 1

(***************************************************************************)
(* C5: if path resolution yields an empty string for the resolved          *)
(* components path or the resolved css path, init fails before the config  *)
(* file is written, before any directory or stylesheet is created and      *)
(* before any install subprocess is spawned.                               *)
(***************************************************************************)
C5_EmptyResolvedPathFailsBeforeWrites ==
  EmptyResolvedPath =>
    /\ pc \in {"Catch", "Exited"}
    /\ error = "Failed to resolve components alias"
    /\ pc = "Exited" => exitCode = 1
    /\ calls.writeConfig = 0
    /\ calls.mkdir = 0
    /\ calls.writeCss = 0
    /\ DiskUntouched
    /\ spawned = <<>>

C5_Witness ==
  /\ resolvedPaths.components # ""
  /\ resolvedPaths.css = ""
  /\ pc = "Exited"

(***************************************************************************)
(* C6: for a target directory that exists but has no package.json, init    *)
(* exits non-zero and writes no config file; no theme list is fetched and  *)
(* no prompt is shown before the exit.                                     *)
(***************************************************************************)
C6_NoManifestExitsNonZero ==
  (targetDir /\ ~manifest.exists) =>
    /\ pc \in {"ValidateTarget", "ValidatePackageJSON", "Exited"}
    /\ pc = "Exited" => exitCode = 1
    /\ calls.getThemes = 0
    /\ calls.prompts = 0
    /\ calls.writeConfig = 0
    /\ ConfigUntouched

C6_Witness ==
  /\ targetDir
  /\ ~manifest.exists
  /\ pc = "Exited"

(***************************************************************************)
(* C7: for a target directory whose package.json declares neither react    *)
(* nor next, init exits non-zero before any prompt, remote call or file    *)
(* write happens.                                                          *)
(***************************************************************************)
C7_NoFrameworkExitsNonZero ==
  (manifest.exists /\ "react" \notin manifest.deps
                   /\ "next" \notin manifest.deps) =>
    /\ pc \in {"ValidateTarget", "ValidatePackageJSON", "ValidateFramework",
               "Exited"}
    /\ pc = "Exited" => exitCode = 1
    /\ calls.prompts = 0
    /\ calls.getThemes = 0
    /\ calls.getInitData = 0
    /\ calls.writeConfig = 0
    /\ calls.mkdir = 0
    /\ calls.writeCss = 0
    /\ DiskUntouched

C7_Witness ==
  /\ manifest.exists
  /\ manifest.deps = {}
  /\ pc = "Exited"

(***************************************************************************)
(* C8: after every successful run the stylesheet at the resolved css path  *)
(* contains exactly the css that fetchInitData returned (earlier content   *)
(* is replaced), and the config file parses back to the theme name, css    *)
(* path and components alias the operator gave at the prompts.             *)
(***************************************************************************)
C8_StylesheetAndConfigRoundTrip ==
  pc = "Done" =>
    /\ cssFile = initData.css
    /\ configFile.exists
    /\ JSONParse(configFile.text).theme.name = options.theme
    /\ JSONParse(configFile.text).theme.css = options.globalCSS
    /\ JSONParse(configFile.text).alias.components = options.components

C8_Witness ==
  /\ pc = "Done"
  /\ diskBefore[6] = OldCss
  /\ diskBefore[3].exists
  /\ options.theme = <<"t", "\"", "2">>
  /\ options.globalCSS = <<"\\">>
  /\ options.components = <<"\"">>

(***************************************************************************)
(* C9, as claimed: in every run where the fetched dependency list is       *)
(* empty, no install subprocess is spawned and the run reaches Done; in    *)
(* every run where the list is non-empty and all earlier steps succeeded,  *)
(* exactly one install subprocess is spawned.  The code violates the first *)
(* half: the stylesheet is written after the fetch, and that can fail.     *)
(***************************************************************************)
C9_EmptyListAlwaysReachesDone ==
  /\ (Terminated /\ FetchedNoDeps) => (pc = "Done" /\ spawned = <<>>)
  /\ (Terminated /\ FetchedSomeDeps /\ calls.writeCss > 0)
       => Len(spawned) = 1

(***************************************************************************)
(* C9, amended: in every run where the fetched dependency list is empty,   *)
(* no install subprocess is ever spawned, and once the stylesheet has been *)
(* written the run goes on to Done (exit code 0) and nowhere else; in      *)
(* every run where the list is non-empty and all earlier steps succeeded,  *)
(* exactly one install subprocess is spawned.                              *)
(***************************************************************************)
C9_EmptyListSkipsInstall ==
  /\ FetchedNoDeps => spawned = <<>>
  /\ (FetchedNoDeps /\ calls.writeCss > 0) =>
       /\ pc \in {"InstallDependencies", "Done"}
       /\ pc = "Done" => exitCode = 0
  /\ (FetchedSomeDeps /\ calls.writeCss > 0 /\ pc # "InstallDependencies")
       => Len(spawned) = 1
  /\ spawned # <<>> =>
       /\ Len(spawned) = 1
       /\ FetchedSomeDeps
       /\ calls.writeCss > 0

C9_Witness ==
  /\ FetchedNoDeps
  /\ pc = "Done"
  /\ spawned = <<>>

(***************************************************************************)
(* C10: nothing is retried: listThemes is called at most once,             *)
(* fetchInitData at most once, the install subprocess is spawned at most   *)
(* once, also when the call fails; a failure of any of them aborts the run *)
(* without a later stage being executed.                                   *)
(***************************************************************************)
C10_NothingRetried ==
  /\ calls.getThemes <= 1
  /\ calls.getInitData <= 1
  /\ Len(spawned) <= 1
  /\ error = "getThemes failed" =>
       /\ pc \in {"Catch", "Exited"}
       /\ calls.getThemes = 1
       /\ calls.prompts = 0
       /\ calls.writeConfig = 0
       /\ calls.getInitData = 0
       /\ DiskUntouched
       /\ spawned = <<>>
  /\ error = "getInitData failed" =>
       /\ pc \in {"Catch", "Exited"}
       /\ calls.getInitData = 1
       /\ calls.writeCss = 0
       /\ cssFile = diskBefore[6]
       /\ spawned = <<>>
  /\ error = "Command failed" =>
       /\ pc \in {"Catch", "Exited"}
       /\ Len(spawned) = 1
  /\ (pc = "Exited" /\ error # NoError) => exitCode = 1

C10_Witness ==
  /\ error = "Command failed"
  /\ pc = "Exited"
  /\ calls.getThemes = 1
  /\ calls.getInitData = 1

StageRank(p) ==
  IF p = "ValidateTarget" THEN 1
  ELSE IF p = "ValidatePackageJSON" THEN 2
  ELSE IF p = "ValidateFramework" THEN 3
  ELSE IF p \in {"GetThemes", "PromptTheme", "PromptCSS", "PromptAlias",
                 "ResolvePaths", "Confirm"} THEN 4
  ELSE IF p = "PersistConfig" THEN 5
  ELSE IF p = "EnsureComponentsDir" THEN 6
  ELSE IF p = "FetchInitPayload" THEN 7
  ELSE IF p \in {"EnsureCssDir", "WriteStylesheet"} THEN 8
  ELSE IF p \in {"InstallDependencies", "AwaitInstall"} THEN 9
  ELSE IF p = "Done" THEN 10
  ELSE 0

Aborted(p) == p \in {"Catch", "Exited"}

\* entering `to` right after `from` follows the fixed order: the same stage,
\* the next stage, or the abort path
StepInOrder(from, to) ==
  \/ Aborted(to)
  \/ /\ ~Aborted(from)
     /\ StageRank(to) \in {StageRank(from), StageRank(from) + 1}

\* C12, stated on the last two stages entered and on the effects of the stages.
\* hist grows by one entry with every step of the run, so every two stages
\* entered one after the other are the last two entries of hist in some
\* reachable state: the property is stated on those
C12_StagesInFixedOrder ==
  /\ hist[1] = "ValidateTarget"
  /\ Len(hist) > 1 => StepInOrder(hist[Len(hist) - 1], hist[Len(hist)])
  /\ calls.writeConfig > 0 =>
       /\ Entered("Confirm")
       /\ proceed = "true"
  /\ calls.mkdir > 0 => calls.writeConfig = 1
  /\ (componentsDir /\ ~diskBefore[4]) => calls.writeConfig = 1
  /\ calls.getInitData > 0 => (calls.writeConfig = 1 /\ componentsDir)
  /\ calls.writeCss > 0 =>
       /\ calls.getInitData = 1
       /\ Fetched
  /\ cssFile # diskBefore[6] => (Fetched /\ cssFile = initData.css)
  /\ spawned # <<>> =>
       /\ calls.writeCss = 1
       /\ cssFile = initData.css
  /\ pc = "Done" => calls.writeCss = 1

C12_Witness ==
  /\ pc = "Done"
  /\ Len(spawned) = 1
  /\ ~diskBefore[4]
  /\ componentsDir

(***************************************************************************)
(* C13: assuming every prompt, remote call and subprocess eventually       *)
(* returns, every run of init eventually terminates, in Done or in a       *)
(* process exit, and it passes through each stage at most once.            *)
(***************************************************************************)
\* no stage occurs twice among the stages entered
EachStageOnce ==
  \A i, j \in 1..Len(hist) : hist[i] = hist[j] => i = j

C13_TerminatesEachStageOnce ==
  /\ <>Terminated
  /\ [](EachStageOnce /\ (Terminated => exitCode \in {0, 1}))

C13_Witness ==
  /\ pc = "Done"
  /\ Entered("AwaitInstall")
  /\ EachStageOnce

(***************************************************************************)
(* C14: whenever the install subprocess is spawned, it runs the detected   *)
(* package manager in the target directory with the verb install when the  *)
(* manager is npm and the verb add for every other manager, followed by    *)
(* all fetched dependency names in the order in which they were fetched,   *)
(* none dropped or duplicated.                                             *)
(***************************************************************************)
C14_InstallCommandLine ==
  \A i \in 1..Len(spawned) :
    /\ spawned[i].file \in PackageManagers
    /\ spawned[i].cwd = "cwd"
    /\ Len(spawned[i].args) = 1 + Len(initData.dependencies)
    /\ spawned[i].file = "npm" => spawned[i].args[1] = "install"
    /\ spawned[i].file # "npm" => spawned[i].args[1] = "add"
    /\ \A k \in 1..Len(initData.dependencies) :
         spawned[i].args[k + 1] = initData.dependencies[k]

C14_Witness ==
  /\ Len(spawned) = 1
  /\ spawned[1].file = "pnpm"
  /\ spawned[1].args = <<"add", "tailwind-merge", "clsx">>

(***************************************************************************)
(* C15: whenever the process exits with code 0, either the run reached     *)
(* Done or this run has written no config file; this includes an exit      *)
(* caused by SIGINT or SIGTERM arriving at any point of the flow, also     *)
(* between PersistConfig and Done.                                         *)
(* Stated as claimed; the code violates it: the signal handlers call       *)
(* process.exit(0) whatever the run has written so far.                    *)
(***************************************************************************)
C15_ExitZeroMeansDoneOrNothingWritten ==
  (Terminated /\ exitCode = 0) =>
    (pc = "Done" \/ (calls.writeConfig = 0 /\ ConfigUntouched))

(***************************************************************************)
(* C16: the error handler rolls back nothing except the config file: when  *)
(* a run fails after EnsureComponentsDir or WriteStylesheet (for example   *)
(* when the install subprocess exits non-zero), the components directory   *)
(* created and the stylesheet written by this run remain on disk as they   *)
(* were at the moment of the failure.                                      *)
(***************************************************************************)
C16_FailureKeepsDirectoryAndStylesheet ==
  (error # NoError /\ pc \in {"Catch", "Exited"}) =>
    /\ Entered("FetchInitPayload") => componentsDir
    /\ ~Entered("FetchInitPayload") => componentsDir = diskBefore[4]
    /\ calls.writeCss > 0 => (cssDir /\ cssFile = initData.css)
    /\ calls.writeCss = 0 => cssFile = diskBefore[6]
    /\ Entered("WriteStylesheet") => cssDir

C16_Witness ==
  /\ pc = "Exited"
  /\ error = "Command failed"
  /\ ~diskBefore[4]
  /\ componentsDir
  /\ diskBefore[6] = NoFile
  /\ cssFile = initData.css

====
